---- MODULE Spec2Model ----
(***************************************************************************)
(* A model of examples/mujoco_all_diayn_finetune.py: the DIAYN finetuning  *)
(* driver.  run_experiment loads a snapshot, evaluates every skill of the  *)
(* pretrained policy (get_best_skill), freezes the best one in a           *)
(* FixedOptionEnv, builds the replay pool and the value functions, and     *)
(* drains the trainer's per-epoch generator.  build_tagged_log_dir and     *)
(* build_video_dir derive a variant's directories.                         *)
(*                                                                         *)
(* The collaborators imported from the softlearning package (the policy's  *)
(* deterministic() context manager, rollouts, FixedOptionEnv,              *)
(* SimpleReplayPool, SAC.train) are modelled from their documented         *)
(* contracts; numpy and os.path by what the library functions do.          *)
(***************************************************************************)
EXTENDS Integers, Sequences, FiniteSets, TLC

VARIABLES
    pc,            \* position of run_experiment / get_best_skill
    failed_at,     \* driver state in which an exception ended the run
    variant,       \* the variant run_experiment was called with
    data,          \* the snapshot bundle joblib.load returns
    policy_det,    \* policy._is_deterministic
    was_det,       \* the value the deterministic() context saved, if any
    det0,          \* history: the policy's setting before evaluation
    num_skills,    \* run_experiment's num_skills
    z,             \* get_best_skill's loop variable
    reward_list,   \* get_best_skill's reward_list (means, as fractions)
    eval_log,      \* history: one record per rollouts() call
    best_z,        \* np.argmax's result / run_experiment's best_z
    n_rollouts,    \* history: evaluation episodes run so far
    fixed_z_env,   \* the FixedOptionEnv
    env_builds,    \* history: FixedOptionEnv constructions
    pool,          \* the SimpleReplayPool
    values,        \* where qf and vf come from
    algorithm,     \* the SAC instance's arguments
    gen,           \* state of the generator algorithm.train()
    train,         \* the generator's frame
    record,        \* the record the generator last yielded
    pulled,        \* history: epochs of the records the driver received
    sample_log,    \* history: pool occupancies at which sample() ran
    dir_pc,        \* position of the variant builder
    spec,          \* the variant spec handed to build_tagged_log_dir
    log_dir,       \* its result
    video_dir      \* build_video_dir's result

run_vars == <<pc, failed_at, variant, data, policy_det, was_det, det0,
              num_skills, z, reward_list, eval_log, best_z, n_rollouts,
              fixed_z_env, env_builds, pool, values, algorithm, gen, train,
              record, pulled, sample_log>>
dir_vars == <<dir_pc, spec, log_dir, video_dir>>
vars == <<run_vars, dir_vars>>

None == [none |-> TRUE]
NoIndex == 0 - 1

(***************************************************************************)
(* Bounds of the model.                                                    *)
(***************************************************************************)
MaxSkills == 3
MaxPathLength == 2
MaxPoolSize == 3
MaxEpochLength == 2
MaxEpochs == 2
MaxNameLen == 4
MaxLrExponent == 5

\* the reward sums an episode can have
PathReturns == {0, 1}

\* the native observation shape of the environment in the snapshot
EnvObsShape == <<2>>

(***************************************************************************)
(* numpy                                                                   *)
(***************************************************************************)
RECURSIVE Prod(_)
Prod(shape) == IF shape = <<>> THEN 1 ELSE Head(shape) * Prod(Tail(shape))

RECURSIVE Sum(_)
Sum(xs) == IF xs = <<>> THEN 0 ELSE Head(xs) + Sum(Tail(xs))

\* np.mean of a non-empty list of numbers, kept exact as a fraction
Mean(xs) == [num |-> Sum(xs), den |-> Len(xs)]

Greater(a, b) == a.num * b.den > b.num * a.den
SameValue(a, b) == a.num * b.den = b.num * a.den

\* the scan of np.argmax over positions i..Len(xs), best being the best so far
RECURSIVE ArgMaxScan(_, _, _)
ArgMaxScan(xs, i, best) ==
    IF i > Len(xs) THEN best
    ELSE ArgMaxScan(xs, i + 1, IF Greater(xs[i], xs[best]) THEN i ELSE best)

\* a mutant: a later equal value replaces the best one (last occurrence)
RECURSIVE ArgMaxLastScan(_, _, _)
ArgMaxLastScan(xs, i, best) ==
    IF i > Len(xs) THEN best
    ELSE ArgMaxLastScan(xs, i + 1, IF Greater(xs[best], xs[i]) THEN best ELSE i)

ArgMaxLast(xs) == ArgMaxLastScan(xs, 2, 1) - 1

\* np.argmax(reward_list), 0-based; it raises ValueError on an empty list
ArgMax(xs) == ArgMaxScan(xs, 2, 1) - 1

ArgMaxAcceptsEmpty(xs) == FALSE

ArgMaxRaises(xs) == xs = <<>>

(***************************************************************************)
(* The variant and the snapshot                                            *)
(***************************************************************************)
Variants ==
    [max_path_length : 1..MaxPathLength,
     max_pool_size : 1..MaxPoolSize,
     epoch_length : 1..MaxEpochLength,
     n_epochs : 1..MaxEpochs,
     use_pretrained_values : BOOLEAN]

\* the shapes a snapshot can hold: the environment's flat observation and a
\* policy input of up to MaxSkills more entries (or fewer: not a DIAYN policy)
PolicyShapes ==
    { <<d>> : d \in (Prod(EnvObsShape) - 1)..(Prod(EnvObsShape) + MaxSkills) }
EnvShapes == { EnvObsShape }

Snapshots == [policy_shape : PolicyShapes, env_shape : EnvShapes, det : BOOLEAN]

NumSkills(d) == Prod(d.policy_shape) - Prod(d.env_shape)

\* range(n) as the set of its values
Range(n) == 0..(n - 1)

\* a mutant: the loop stops one skill early
SkillRangeMut(n) == 0..(n - 2)

\* the skills the loop of get_best_skill visits: range(num_skills)
SkillRange(n) == Range(n)

(***************************************************************************)
(* policy.deterministic(flag): the scoped toggle                           *)
(***************************************************************************)
DeterministicEnter(flag) ==
    /\ was_det' = <<policy_det>>
    /\ policy_det' = flag

DeterministicExit ==
    /\ policy_det' = was_det[1]
    /\ was_det' = <<>>

EvalDeterministicMut == FALSE

\* the argument of policy.deterministic(...) in get_best_skill
EvalDeterministic == TRUE

\* n_paths of the rollouts() call
NPaths == 2

(***************************************************************************)
(* FixedOptionEnv and SimpleReplayPool                                     *)
(***************************************************************************)
OneHot(i, n) == [k \in 1..n |-> IF k = i + 1 THEN 1 ELSE 0]

\* FixedOptionEnv(env, num_skills, z)
FixedOptionEnv(n, skill) == [num_skills |-> n, z |-> skill]

\* the observation reset() and step() return: the base observation with the
\* encoding of the frozen skill appended
Observe(e, base) == [base |-> base, skill |-> OneHot(e.z, e.num_skills)]

\* SimpleReplayPool(max_size=...)
NewPool(max_size) ==
    [max_size |-> max_size,
     slots |-> [k \in 1..max_size |-> None],
     top |-> 0,
     size |-> 0]

\* add: write at the cursor, advance it around the ring
PoolAdd(p, tr) ==
    [p EXCEPT !.slots = [p.slots EXCEPT ![p.top + 1] = tr],
              !.top = (p.top + 1) % p.max_size,
              !.size = IF p.size < p.max_size THEN p.size + 1 ELSE p.size]

PoolContents(p) == { p.slots[k] : k \in 1..p.max_size } \ {None}

\* a mutant: the loop variable's last value instead of the arg-max
FixedEnvSkillMut == num_skills - 1

\* the skill run_experiment hands to FixedOptionEnv
FixedEnvSkill == best_z

PoolMaxSizeMut(v) == v.max_pool_size + 1

\* max_size of the pool run_experiment builds
PoolMaxSize(v) == v.max_pool_size

MinPoolSizeMut(v) == 0

\* base_kwargs['min_pool_size']
MinPoolSize(v) == v.max_path_length

BaseKwargs(v) ==
    [min_pool_size |-> MinPoolSize(v),
     epoch_length |-> v.epoch_length,
     n_epochs |-> v.n_epochs,
     max_path_length |-> v.max_path_length]

(***************************************************************************)
(* The driver's states                                                     *)
(***************************************************************************)
Stage(p) ==
    CASE p = "load" -> "Init"
      [] p \in {"num_skills", "enter", "eval", "exit", "argmax", "return"}
            -> "SkillSelection"
      [] p \in {"make_env", "make_pool"} -> "EnvironmentSetup"
      [] p = "make_values" -> "ValueFunctionSetup"
      [] p \in {"make_algorithm", "train"} -> "Training"
      [] p = "done" -> "Done"
      [] OTHER -> "Failed"

Rank(s) ==
    CASE s = "Init" -> 0
      [] s = "SkillSelection" -> 1
      [] s = "EnvironmentSetup" -> 2
      [] s = "ValueFunctionSetup" -> 3
      [] s = "Training" -> 4
      [] s = "Done" -> 5
      [] OTHER -> 6

Fail ==
    /\ pc' = "failed"
    /\ failed_at' = Stage(pc)

Init ==
    /\ pc = "load"
    /\ failed_at = "None"
    /\ variant \in Variants
    /\ data = None
    /\ policy_det = FALSE
    /\ det0 = FALSE
    /\ was_det = <<>>
    /\ num_skills = 0
    /\ z = NoIndex
    /\ reward_list = <<>>
    /\ eval_log = <<>>
    /\ best_z = NoIndex
    /\ n_rollouts = 0
    /\ fixed_z_env = None
    /\ env_builds = 0
    /\ pool = None
    /\ values = "None"
    /\ algorithm = None
    /\ gen = "none"
    /\ train = None
    /\ record = None
    /\ pulled = <<>>
    /\ sample_log = {}
    /\ dir_pc = "off"
    /\ spec = None
    /\ log_dir = <<>>
    /\ video_dir = <<>>

(***************************************************************************)
(* run_experiment, up to the call of get_best_skill                        *)
(***************************************************************************)
\* data = joblib.load(variant['snapshot_filename'])
Load ==
    /\ pc = "load"
    /\ \E d \in Snapshots :
          /\ data' = d
          /\ policy_det' = d.det
          /\ det0' = d.det
    /\ pc' = "num_skills"
    /\ UNCHANGED <<dir_vars, failed_at, variant, was_det, num_skills, z, reward_list,
                   eval_log, best_z, n_rollouts, fixed_z_env, env_builds, pool,
                   values, algorithm, gen, train, record, pulled, sample_log>>

\* joblib.load raises: the snapshot is missing or malformed
LoadRaises ==
    /\ pc = "load"
    /\ Fail
    /\ UNCHANGED <<dir_vars, variant, data, policy_det, was_det, det0, num_skills, z,
                   reward_list, eval_log, best_z, n_rollouts, fixed_z_env,
                   env_builds, pool, values, algorithm, gen, train, record,
                   pulled, sample_log>>

\* num_skills = np.prod(policy._observation_shape) - np.prod(env...shape)
DeriveNumSkills ==
    /\ pc = "num_skills"
    /\ num_skills' = NumSkills(data)
    /\ pc' = "enter"
    /\ UNCHANGED <<dir_vars, failed_at, variant, data, policy_det, was_det, det0, z,
                   reward_list, eval_log, best_z, n_rollouts, fixed_z_env,
                   env_builds, pool, values, algorithm, gen, train, record,
                   pulled, sample_log>>

(***************************************************************************)
(* get_best_skill                                                          *)
(***************************************************************************)
\* reward_list = []; with policy.deterministic(True): for z in range(...)
EnterDeterministic ==
    /\ pc = "enter"
    /\ reward_list' = <<>>
    /\ DeterministicEnter(EvalDeterministic)
    /\ z' = 0
    /\ pc' = "eval"
    /\ UNCHANGED <<dir_vars, failed_at, variant, data, det0, num_skills, eval_log,
                   best_z, n_rollouts, fixed_z_env, env_builds, pool, values,
                   algorithm, gen, train, record, pulled, sample_log>>

\* one pass of the loop body: rollouts(env, FixedOptionPolicy(policy,
\* num_skills, z), max_path_length, n_paths=2), the mean, the append
EvaluateSkill ==
    /\ pc = "eval"
    /\ z \in SkillRange(num_skills)
    /\ \E new_paths \in [1..NPaths -> PathReturns] :
          /\ reward_list' = Append(reward_list, Mean(new_paths))
          /\ eval_log' = Append(eval_log,
                 [z |-> z, new_paths |-> new_paths, det |-> policy_det,
                  max_path_length |-> variant.max_path_length])
    /\ n_rollouts' = n_rollouts + NPaths
    /\ z' = z + 1
    /\ UNCHANGED <<dir_vars, pc, failed_at, variant, data, policy_det, was_det, det0,
                   num_skills, best_z, fixed_z_env, env_builds, pool, values,
                   algorithm, gen, train, record, pulled, sample_log>>

\* a rollout raises after k finished episodes: the exception leaves the with
\* block, which restores the policy, and then get_best_skill and run_experiment
EvaluateSkillRaises ==
    /\ pc = "eval"
    /\ z \in SkillRange(num_skills)
    /\ \E k \in 0..(NPaths - 1) : n_rollouts' = n_rollouts + k
    /\ DeterministicExit
    /\ Fail
    /\ UNCHANGED <<dir_vars, variant, data, det0, num_skills, z, reward_list, eval_log,
                   best_z, fixed_z_env, env_builds, pool, values, algorithm,
                   gen, train, record, pulled, sample_log>>

\* range(num_skills) is exhausted: the with block ends
ExitDeterministic ==
    /\ pc = "eval"
    /\ z \notin SkillRange(num_skills)
    /\ DeterministicExit
    /\ pc' = "argmax"
    /\ UNCHANGED <<dir_vars, failed_at, variant, data, det0, num_skills, z, reward_list,
                   eval_log, best_z, n_rollouts, fixed_z_env, env_builds, pool,
                   values, algorithm, gen, train, record, pulled, sample_log>>

\* best_z = np.argmax(reward_list)
SelectBest ==
    /\ pc = "argmax"
    /\ ~ArgMaxRaises(reward_list)
    /\ best_z' = ArgMax(reward_list)
    /\ pc' = "return"
    /\ UNCHANGED <<dir_vars, failed_at, variant, data, policy_det, was_det, det0,
                   num_skills, z, reward_list, eval_log, n_rollouts,
                   fixed_z_env, env_builds, pool, values, algorithm, gen,
                   train, record, pulled, sample_log>>

\* np.argmax of an empty reward_list: ValueError
SelectBestRaises ==
    /\ pc = "argmax"
    /\ ArgMaxRaises(reward_list)
    /\ Fail
    /\ UNCHANGED <<dir_vars, variant, data, policy_det, was_det, det0, num_skills, z,
                   reward_list, eval_log, best_z, n_rollouts, fixed_z_env,
                   env_builds, pool, values, algorithm, gen, train, record,
                   pulled, sample_log>>

\* return best_z: the locals of get_best_skill are gone
ReturnBestSkill ==
    /\ pc = "return"
    /\ reward_list' = <<>>
    /\ eval_log' = <<>>
    /\ z' = NoIndex
    /\ pc' = "make_env"
    /\ UNCHANGED <<dir_vars, failed_at, variant, data, policy_det, was_det, det0,
                   num_skills, best_z, n_rollouts, fixed_z_env, env_builds,
                   pool, values, algorithm, gen, train, record, pulled,
                   sample_log>>

(***************************************************************************)
(* run_experiment, after get_best_skill                                    *)
(***************************************************************************)
\* fixed_z_env = FixedOptionEnv(env, num_skills, best_z)
MakeEnv ==
    /\ pc = "make_env"
    /\ fixed_z_env' = FixedOptionEnv(num_skills, FixedEnvSkill)
    /\ env_builds' = env_builds + 1
    /\ pc' = "make_pool"
    /\ UNCHANGED <<dir_vars, failed_at, variant, data, policy_det, was_det, det0,
                   num_skills, z, reward_list, eval_log, best_z, n_rollouts,
                   pool, values, algorithm, gen, train, record, pulled,
                   sample_log>>

\* a mutant: the pool is built before get_best_skill is called
MakePoolEarly ==
    /\ pc \in {"enter", "make_pool"}
    /\ pool = None
    /\ pool' = NewPool(PoolMaxSize(variant))
    /\ pc' = IF pc = "make_pool" THEN "make_values" ELSE pc
    /\ UNCHANGED <<dir_vars, failed_at, variant, data, policy_det, was_det, det0,
                   num_skills, z, reward_list, eval_log, best_z, n_rollouts,
                   fixed_z_env, env_builds, values, algorithm, gen, train,
                   record, pulled, sample_log>>

\* pool = SimpleReplayPool(..., max_size=variant['max_pool_size'])
MakePool ==
    /\ pc = "make_pool"
    /\ pool' = NewPool(PoolMaxSize(variant))
    /\ pc' = "make_values"
    /\ UNCHANGED <<dir_vars, failed_at, variant, data, policy_det, was_det, det0,
                   num_skills, z, reward_list, eval_log, best_z, n_rollouts,
                   fixed_z_env, env_builds, values, algorithm, gen, train,
                   record, pulled, sample_log>>

\* qf, vf: the snapshot's, or fresh ones under the finetune scopes
MakeValues ==
    /\ pc = "make_values"
    /\ values' = IF variant.use_pretrained_values THEN "pretrained" ELSE "fresh"
    /\ pc' = "make_algorithm"
    /\ UNCHANGED <<dir_vars, failed_at, variant, data, policy_det, was_det, det0,
                   num_skills, z, reward_list, eval_log, best_z, n_rollouts,
                   fixed_z_env, env_builds, pool, algorithm, gen, train,
                   record, pulled, sample_log>>

\* algorithm = SAC(base_kwargs=..., env=fixed_z_env, pool=pool, ...), and the
\* call algorithm.train() that makes the generator
MakeAlgorithm ==
    /\ pc = "make_algorithm"
    /\ algorithm' = [base_kwargs |-> BaseKwargs(variant), env |-> fixed_z_env,
                     values |-> values]
    /\ gen' = "unstarted"
    /\ pc' = "train"
    /\ UNCHANGED <<dir_vars, failed_at, variant, data, policy_det, was_det, det0,
                   num_skills, z, reward_list, eval_log, best_z, n_rollouts,
                   fixed_z_env, env_builds, pool, values, train, record,
                   pulled, sample_log>>

(***************************************************************************)
(* algorithm.train(): the trainer's generator                              *)
(***************************************************************************)
Kwargs == algorithm.base_kwargs

InEpoch ==
    /\ gen = "running"
    /\ train.phase = "step"
    /\ train.epoch < Kwargs.n_epochs
    /\ train.t < Kwargs.epoch_length

\* the episode starts: observation = env.reset()
TrainerReset ==
    /\ pc = "train"
    /\ InEpoch
    /\ train.observation = None
    /\ train' = [train EXCEPT !.observation = Observe(algorithm.env, 0),
                              !.path_length = 0]
    /\ UNCHANGED <<dir_vars, pc, failed_at, variant, data, policy_det, was_det, det0,
                   num_skills, z, reward_list, eval_log, best_z, n_rollouts,
                   fixed_z_env, env_builds, pool, values, algorithm, gen,
                   record, pulled, sample_log>>

\* one environment step: env.step(action), then pool.add of the transition;
\* the episode ends at max_path_length
TrainerEnvStep ==
    /\ pc = "train"
    /\ InEpoch
    /\ train.observation # None
    /\ LET n == train.steps + 1
           next_observation == Observe(algorithm.env, n)
           over == train.path_length + 1 >= Kwargs.max_path_length
       IN  /\ pool' = PoolAdd(pool, [id |-> n,
                                     observation |-> train.observation,
                                     next_observation |-> next_observation])
           /\ train' = [train EXCEPT
                  !.steps = n,
                  !.phase = "update",
                  !.path_length = IF over THEN 0 ELSE train.path_length + 1,
                  !.observation = IF over THEN None ELSE next_observation]
    /\ UNCHANGED <<dir_vars, pc, failed_at, variant, data, policy_det, was_det, det0,
                   num_skills, z, reward_list, eval_log, best_z, n_rollouts,
                   fixed_z_env, env_builds, values, algorithm, gen, record,
                   pulled, sample_log>>

\* the gate is open: a gradient step samples a batch from the pool; sample
\* raises InsufficientDataError on an empty pool
TrainerSample ==
    /\ pc = "train"
    /\ gen = "running"
    /\ train.phase = "update"
    /\ pool.size >= Kwargs.min_pool_size
    /\ sample_log' = sample_log \cup {pool.size}
    /\ IF pool.size = 0
       THEN /\ gen' = "raised"
            /\ Fail
            /\ UNCHANGED train
       ELSE /\ train' = [train EXCEPT !.phase = "step", !.t = train.t + 1]
            /\ UNCHANGED <<pc, failed_at, gen>>
    /\ UNCHANGED <<dir_vars, variant, data, policy_det, was_det, det0, num_skills, z,
                   reward_list, eval_log, best_z, n_rollouts, fixed_z_env,
                   env_builds, pool, values, algorithm, record, pulled>>

\* the gate is closed: the pool holds fewer than min_pool_size transitions
TrainerSkip ==
    /\ pc = "train"
    /\ gen = "running"
    /\ train.phase = "update"
    /\ pool.size < Kwargs.min_pool_size
    /\ train' = [train EXCEPT !.phase = "step", !.t = train.t + 1]
    /\ UNCHANGED <<dir_vars, pc, failed_at, variant, data, policy_det, was_det, det0,
                   num_skills, z, reward_list, eval_log, best_z, n_rollouts,
                   fixed_z_env, env_builds, pool, values, algorithm, gen,
                   record, pulled, sample_log>>

\* the epoch is over: yield (epoch, mean_return) and suspend
TrainerYield ==
    /\ pc = "train"
    /\ gen = "running"
    /\ train.phase = "step"
    /\ train.epoch < Kwargs.n_epochs
    /\ train.t = Kwargs.epoch_length
    /\ \E mean_return \in PathReturns :
          record' = [epoch |-> train.epoch, mean_return |-> mean_return]
    /\ gen' = "suspended"
    /\ UNCHANGED <<dir_vars, pc, failed_at, variant, data, policy_det, was_det, det0,
                   num_skills, z, reward_list, eval_log, best_z, n_rollouts,
                   fixed_z_env, env_builds, pool, values, algorithm, train,
                   pulled, sample_log>>

\* all n_epochs epochs are done: the generator returns (StopIteration)
TrainerFinish ==
    /\ pc = "train"
    /\ gen = "running"
    /\ train.phase = "step"
    /\ train.epoch >= Kwargs.n_epochs
    /\ gen' = "finished"
    /\ UNCHANGED <<dir_vars, pc, failed_at, variant, data, policy_det, was_det, det0,
                   num_skills, z, reward_list, eval_log, best_z, n_rollouts,
                   fixed_z_env, env_builds, pool, values, algorithm, train,
                   record, pulled, sample_log>>

\* an environment or training step raises: the exception leaves the generator
\* and run_experiment
TrainerRaises ==
    /\ pc = "train"
    /\ gen = "running"
    /\ gen' = "raised"
    /\ Fail
    /\ UNCHANGED <<dir_vars, variant, data, policy_det, was_det, det0, num_skills, z,
                   reward_list, eval_log, best_z, n_rollouts, fixed_z_env,
                   env_builds, pool, values, algorithm, train, record, pulled,
                   sample_log>>

(***************************************************************************)
(* run_experiment: for epoch, mean_return in algorithm.train(): pass       *)
(***************************************************************************)
\* a mutant: the loop breaks after the first record
DriverNextBreaks ==
    /\ pc = "train"
    /\ gen \in {"unstarted", "suspended"}
    /\ IF gen = "unstarted"
       THEN /\ train' = [epoch |-> 0, t |-> 0, phase |-> "step", steps |-> 0,
                         path_length |-> 0, observation |-> None]
            /\ gen' = "running"
            /\ UNCHANGED <<pc, pulled, record>>
       ELSE /\ pulled' = Append(pulled, record.epoch)
            /\ record' = None
            /\ pc' = "done"
            /\ UNCHANGED <<gen, train>>
    /\ UNCHANGED <<dir_vars, failed_at, variant, data, policy_det, was_det, det0,
                   num_skills, z, reward_list, eval_log, best_z, n_rollouts,
                   fixed_z_env, env_builds, pool, values, algorithm,
                   sample_log>>

\* the for statement asks the generator for its next record: the first time
\* this starts the generator; later it ends the (empty) loop body, dropping the
\* record received, and resumes the generator after its yield
DriverNext ==
    /\ pc = "train"
    /\ gen \in {"unstarted", "suspended"}
    /\ IF gen = "unstarted"
       THEN /\ train' = [epoch |-> 0, t |-> 0, phase |-> "step", steps |-> 0,
                         path_length |-> 0, observation |-> None]
            /\ UNCHANGED <<pulled, record>>
       ELSE /\ pulled' = Append(pulled, record.epoch)
            /\ record' = None
            /\ train' = [train EXCEPT !.epoch = train.epoch + 1, !.t = 0]
    /\ gen' = "running"
    /\ UNCHANGED <<dir_vars, pc, failed_at, variant, data, policy_det, was_det, det0,
                   num_skills, z, reward_list, eval_log, best_z, n_rollouts,
                   fixed_z_env, env_builds, pool, values, algorithm,
                   sample_log>>

\* StopIteration ends the for statement and run_experiment returns
DriverExit ==
    /\ pc = "train"
    /\ gen = "finished"
    /\ pc' = "done"
    /\ UNCHANGED <<dir_vars, failed_at, variant, data, policy_det, was_det, det0,
                   num_skills, z, reward_list, eval_log, best_z, n_rollouts,
                   fixed_z_env, env_builds, pool, values, algorithm, gen,
                   train, record, pulled, sample_log>>

RunNext ==
    \/ Load
    \/ LoadRaises
    \/ DeriveNumSkills
    \/ EnterDeterministic
    \/ EvaluateSkill
    \/ EvaluateSkillRaises
    \/ ExitDeterministic
    \/ SelectBest
    \/ SelectBestRaises
    \/ ReturnBestSkill
    \/ MakeEnv
    \/ MakePool
    \/ MakeValues
    \/ MakeAlgorithm
    \/ DriverNext
    \/ TrainerReset
    \/ TrainerEnvStep
    \/ TrainerSample
    \/ TrainerSkip
    \/ TrainerYield
    \/ TrainerFinish
    \/ TrainerRaises
    \/ DriverExit

Next == RunNext

Spec == Init /\ [][Next]_vars

(***************************************************************************)
(* The variant builder: build_tagged_log_dir and build_video_dir.          *)
(* A Python str is a sequence of one-character strings.                    *)
(***************************************************************************)
Slash == "/"

\* sep.join(parts)
RECURSIVE Join(_, _)
Join(sep, parts) ==
    IF parts = <<>> THEN <<>>
    ELSE IF Len(parts) = 1 THEN Head(parts)
    ELSE Head(parts) \o sep \o Join(sep, Tail(parts))

\* s.split('/') from position i on, cur being the part read so far
RECURSIVE SplitScan(_, _, _)
SplitScan(s, i, cur) ==
    IF i > Len(s) THEN <<cur>>
    ELSE IF s[i] = Slash THEN <<cur>> \o SplitScan(s, i + 1, <<>>)
    ELSE SplitScan(s, i + 1, Append(cur, s[i]))

Split(s) == SplitScan(s, 1, <<>>)

\* os.path.join(a, b)
PathJoin(a, b) ==
    IF b # <<>> /\ Head(b) = Slash THEN b
    ELSE IF a = <<>> \/ a[Len(a)] = Slash THEN a \o b
    ELSE a \o <<Slash>> \o b

Digits == <<"0", "1", "2", "3", "4", "5", "6", "7", "8", "9">>
Digit(d) == Digits[d + 1]

Zeros(n) == [k \in 1..n |-> "0"]

\* str of the float mant * 10^-exp with one significant digit: fixed
\* notation down to 1e-4, scientific below
StrFloat(v) ==
    IF v.exp = 0 THEN <<Digit(v.mant), ".", "0">>
    ELSE IF v.exp <= 4 THEN <<"0", ".">> \o Zeros(v.exp - 1) \o <<Digit(v.mant)>>
    ELSE <<Digit(v.mant), "e", "-", "0", Digit(v.exp)>>

StrBool(v) == IF v THEN <<"T", "r", "u", "e">> ELSE <<"F", "a", "l", "s", "e">>

\* '%s' % value
Str(v) == IF v.type = "bool" THEN StrBool(v.value) ELSE StrFloat(v)

KeyText(key) ==
    IF key = "lr" THEN <<"l", "r">>
    ELSE <<"u", "s", "e", "_", "p", "r", "e", "t", "r", "a", "i", "n", "e", "d", "_">>
         \o <<"v", "a", "l", "u", "e", "s">>

TAG_KEYS == <<"lr", "use_pretrained_values">>

\* '%s_%s' % (key, spec[key])
KeyValue(sp, key) == KeyText(key) \o <<"_">> \o Str(sp[key])

\* 'finetune__{}____{}'.format(parent, '__'.join([... for key in TAG_KEYS]))
Tag(parent, sp) ==
    <<"f", "i", "n", "e", "t", "u", "n", "e", "_", "_">> \o parent
    \o <<"_", "_", "_", "_">>
    \o Join(<<"_", "_">>, [k \in 1..Len(TAG_KEYS) |-> KeyValue(sp, TAG_KEYS[k])])

\* the names a snapshot path can have
RECURSIVE Names(_)
Names(n) ==
    IF n = 0 THEN {<<>>}
    ELSE LET shorter == Names(n - 1)
         IN  shorter \cup { Append(s, c) : s \in shorter, c \in {"r", "i", Slash} }

SnapshotFilenames == Names(MaxNameLen) \ {<<>>}

LogDirBases == {<<>>, <<"b">>, <<"b", Slash>>}

LearningRates == [type : {"float"}, mant : {1, 3}, exp : 0..MaxLrExponent]

Flags == [type : {"bool"}, value : BOOLEAN]

VariantSpecs ==
    [snapshot_filename : SnapshotFilenames,
     log_dir_base : LogDirBases,
     lr : LearningRates,
     use_pretrained_values : Flags]

DirInit ==
    /\ pc = "off"
    /\ failed_at = "None"
    /\ variant = None
    /\ data = None
    /\ policy_det = FALSE
    /\ det0 = FALSE
    /\ was_det = <<>>
    /\ num_skills = 0
    /\ z = NoIndex
    /\ reward_list = <<>>
    /\ eval_log = <<>>
    /\ best_z = NoIndex
    /\ n_rollouts = 0
    /\ fixed_z_env = None
    /\ env_builds = 0
    /\ pool = None
    /\ values = "None"
    /\ algorithm = None
    /\ gen = "none"
    /\ train = None
    /\ record = None
    /\ pulled = <<>>
    /\ sample_log = {}
    /\ dir_pc = "log_dir"
    /\ spec \in VariantSpecs
    /\ log_dir = <<>>
    /\ video_dir = <<>>

\* spec['snapshot_filename'].split('/')[-2] exists
HasParentPart(sp) == Len(Split(sp.snapshot_filename)) >= 2

\* build_tagged_log_dir(spec)
BuildTaggedLogDir ==
    /\ dir_pc = "log_dir"
    /\ HasParentPart(spec)
    /\ LET parts == Split(spec.snapshot_filename)
       IN  log_dir' = PathJoin(spec.log_dir_base, Tag(parts[Len(parts) - 1], spec))
    /\ dir_pc' = "video_dir"
    /\ UNCHANGED <<run_vars, spec, video_dir>>

\* the [-2] of a one-element list: IndexError
BuildTaggedLogDirRaises ==
    /\ dir_pc = "log_dir"
    /\ ~HasParentPart(spec)
    /\ dir_pc' = "failed"
    /\ UNCHANGED <<run_vars, spec, log_dir, video_dir>>

\* build_video_dir(spec), spec['log_dir'] being the directory just built
BuildVideoDir ==
    /\ dir_pc = "video_dir"
    /\ video_dir' = PathJoin(log_dir, <<"v", "i", "d", "e", "o", "s">>)
    /\ dir_pc' = "done"
    /\ UNCHANGED <<run_vars, spec, log_dir>>

DirNext ==
    \/ BuildTaggedLogDir
    \/ BuildTaggedLogDirRaises
    \/ BuildVideoDir

SpecDir == DirInit /\ [][DirNext]_vars

(***************************************************************************)
(* Properties                                                              *)
(***************************************************************************)
TypeOK ==
    /\ pc \in {"off", "load", "num_skills", "enter", "eval", "argmax",
               "return", "make_env", "make_pool", "make_values",
               "make_algorithm", "train", "done", "failed"}
    /\ policy_det \in BOOLEAN
    /\ gen \in {"none", "unstarted", "running", "suspended", "finished",
                "raised"}
    /\ dir_pc \in {"off", "log_dir", "video_dir", "done", "failed"}

Frac(n) == [num |-> n, den |-> 1]

\* the position (1-based) of best_z in reward_list
BestPos == best_z + 1

IsFirstMax(xs, pos) ==
    /\ pos \in 1..Len(xs)
    /\ \A j \in 1..Len(xs) : ~Greater(xs[j], xs[pos])
    /\ \A j \in 1..(pos - 1) : Greater(xs[pos], xs[j])

\* C1: when np.argmax has chosen, best_z is the smallest index of reward_list
\* whose value is the maximum of the list (first occurrence under ties); the
\* returns [1.0, 5.0, 5.0, 2.0] select index 1.
BestSkillIsFirstMax ==
    /\ pc = "return" => IsFirstMax(reward_list, BestPos)
    /\ ArgMax(<<Frac(1), Frac(5), Frac(5), Frac(2)>>) = 1

\* a tie for the maximum that does not start the list, resolved to its first
\* occurrence
BestSkillTieReached ==
    /\ pc = "return"
    /\ BestPos > 1
    /\ \E j \in (BestPos + 1)..Len(reward_list) :
          SameValue(reward_list[j], reward_list[BestPos])

\* C2: when get_best_skill completes, reward_list has exactly num_skills
\* entries, entry i being the mean of the rollouts for skill i; the skills
\* were evaluated in the order 0, 1, ..., num_skills - 1, each once, each with
\* exactly 2 rollouts.
EvaluationCoversEverySkillInOrder ==
    /\ \A i \in 1..Len(eval_log) :
          /\ eval_log[i].z = i - 1
          /\ Len(eval_log[i].new_paths) = 2
    /\ Len(reward_list) = Len(eval_log)
    /\ \A i \in 1..Len(reward_list) :
          reward_list[i] = Mean(eval_log[i].new_paths)
    /\ pc \in {"eval", "argmax"} => n_rollouts = 2 * Len(eval_log)
    /\ pc = "return" =>
          /\ num_skills >= 1
          /\ Len(reward_list) = num_skills
          /\ n_rollouts = 2 * num_skills

EvaluationOfThreeSkillsDone ==
    /\ pc = "return"
    /\ num_skills = 3
    /\ Len(eval_log) = 3

\* C3: the policy is deterministic in every evaluation rollout, and once the
\* evaluation is left, normally or by an exception of a rollout, the policy's
\* setting is the one it had before the evaluation.
DeterministicModeIsScoped ==
    /\ \A i \in 1..Len(eval_log) : eval_log[i].det = TRUE
    /\ pc = "eval" => policy_det = TRUE
    /\ pc \notin {"enter", "eval"} => policy_det = det0 /\ was_det = <<>>

\* an exception after at least one skill was evaluated, the policy having been
\* stochastic before
RestoredAfterRolloutError ==
    /\ pc = "failed"
    /\ failed_at = "SkillSelection"
    /\ eval_log # <<>>
    /\ det0 = FALSE
    /\ policy_det = FALSE

FinetuningStarted == pool # None \/ algorithm # None \/ train # None

\* C4: whenever the replay pool or the trainer exists, every skill has had its
\* rollouts and one best skill is chosen; from then on no evaluation rollout
\* runs and the choice does not change.
SelectionBeforeFinetuning ==
    /\ [](FinetuningStarted =>
             /\ pc \notin {"load", "num_skills", "enter", "eval", "argmax",
                           "return"}
             /\ best_z \in Range(num_skills)
             /\ n_rollouts = 2 * num_skills)
    /\ [][FinetuningStarted => n_rollouts' = n_rollouts /\ best_z' = best_z]_vars

FinetuningTransitionStored ==
    /\ pool # None
    /\ pool.size >= 1
    /\ num_skills = 3

FrozenEncoding == OneHot(best_z, num_skills)

\* C5: the fixed-skill environment is built once, with the skill get_best_skill
\* returned; the trainer gets this environment, and every observation of
\* reset() and step(), hence every stored transition, carries the encoding
\* of that skill.
SkillIsFrozen ==
    /\ env_builds <= 1
    /\ fixed_z_env # None =>
          /\ env_builds = 1
          /\ fixed_z_env = FixedOptionEnv(num_skills, best_z)
    /\ algorithm # None => algorithm.env = fixed_z_env
    /\ (train # None /\ train.observation # None) =>
          train.observation.skill = FrozenEncoding
    /\ pool # None =>
          \A tr \in PoolContents(pool) :
             /\ tr.observation.skill = FrozenEncoding
             /\ tr.next_observation.skill = FrozenEncoding

\* transitions of a frozen skill that is neither the first nor the last
FrozenSkillTransitionsStored ==
    /\ pool # None
    /\ pool.size >= 2
    /\ num_skills = 3
    /\ best_z = 1
    /\ train.observation # None

PoolIds(p) == { tr.id : tr \in PoolContents(p) }

\* C6: the pool never holds more than max_pool_size transitions, and after n
\* adds it holds exactly the min(n, max_pool_size) most recent ones.
PoolIsRing ==
    pool # None =>
       /\ pool.size <= variant.max_pool_size
       /\ Cardinality(PoolContents(pool)) = pool.size
       /\ train = None => pool.size = 0
       /\ train # None =>
             LET n == train.steps
                 kept == IF n > variant.max_pool_size
                         THEN variant.max_pool_size ELSE n
             IN  /\ pool.size = kept
                 /\ PoolIds(pool) = (n - kept + 1)..n

\* max_size 3 and 4 adds: the first transition is evicted
PoolOverwroteOldest ==
    /\ pool # None
    /\ variant.max_pool_size = 3
    /\ train # None
    /\ train.steps = 4
    /\ PoolIds(pool) = {2, 3, 4}

\* C7: min_pool_size is the variant's max_path_length, and sample() only runs
\* on a pool holding at least that many transitions, so never on an empty one.
SamplingIsGated ==
    /\ algorithm # None =>
          algorithm.base_kwargs.min_pool_size = variant.max_path_length
    /\ \A n \in sample_log : n >= variant.max_path_length /\ n >= 1
    /\ (pc = "failed" /\ failed_at = "Training") => 0 \notin sample_log

\* the gate was closed for a step and opened later
GateOpenedAfterWaiting ==
    /\ variant.max_path_length = 2
    /\ train # None
    /\ train.steps >= 2
    /\ sample_log = {2}

\* posixpath.dirname and basename
LastSlash(s) ==
    LET at == { k \in 1..Len(s) : s[k] = Slash }
    IN  IF at = {} THEN 0 ELSE CHOOSE k \in at : \A m \in at : m <= k

RECURSIVE RStripSlash(_)
RStripSlash(s) ==
    IF s # <<>> /\ s[Len(s)] = Slash THEN RStripSlash(SubSeq(s, 1, Len(s) - 1))
    ELSE s

DirName(s) ==
    LET head == SubSeq(s, 1, LastSlash(s))
    IN  IF RStripSlash(head) = <<>> THEN head ELSE RStripSlash(head)

BaseName(s) == SubSeq(s, LastSlash(s) + 1, Len(s))

ParentDirName(s) == BaseName(DirName(s))

ExpectedLogDir(sp) ==
    PathJoin(sp.log_dir_base,
             <<"f", "i", "n", "e", "t", "u", "n", "e", "_", "_">>
             \o ParentDirName(sp.snapshot_filename)
             \o <<"_", "_", "_", "_">>
             \o <<"l", "r", "_">> \o StrFloat(sp.lr)
             \o <<"_", "_">>
             \o <<"u", "s", "e", "_", "p", "r", "e", "t", "r", "a", "i", "n", "e", "d", "_">>
             \o <<"v", "a", "l", "u", "e", "s", "_">>
             \o StrBool(sp.use_pretrained_values.value))

\* C8: for every variant build_tagged_log_dir returns log_dir_base joined with
\* finetune__<parent directory name of the snapshot>____lr_<lr>__
\* use_pretrained_values_<flag>.
TaggedLogDirForEveryVariant ==
    dir_pc # "log_dir" =>
       /\ dir_pc # "failed"
       /\ log_dir = ExpectedLogDir(spec)

\* what holds of build_tagged_log_dir: it returns when the path has a '/', the
\* name in the tag is the part before the last '/' back to the '/' before, a
\* variant differing in lr or use_pretrained_values gets another directory,
\* and the video directory is the log directory's videos
TaggedLogDirWhenSplit ==
    /\ dir_pc = "failed" => LastSlash(spec.snapshot_filename) = 0
    /\ dir_pc \in {"video_dir", "done"} =>
          LET s == spec.snapshot_filename
              head == SubSeq(s, 1, LastSlash(s) - 1)
          IN  /\ LastSlash(s) > 0
              /\ log_dir = PathJoin(spec.log_dir_base,
                                    Tag(BaseName(head), spec))
              /\ (head = <<>> \/ head[Len(head)] # Slash) =>
                    log_dir = ExpectedLogDir(spec)
    /\ dir_pc \in {"video_dir", "done"} =>
          \A lr2 \in LearningRates, flag2 \in Flags :
             LET other == [spec EXCEPT !.lr = lr2,
                                       !.use_pretrained_values = flag2]
                 parts == Split(other.snapshot_filename)
             IN  other # spec =>
                    PathJoin(other.log_dir_base,
                             Tag(parts[Len(parts) - 1], other)) # log_dir
    /\ dir_pc = "done" =>
          video_dir = log_dir \o <<"/", "v", "i", "d", "e", "o", "s">>

Constructed ==
    \/ fixed_z_env # None
    \/ pool # None
    \/ values # "None"
    \/ algorithm # None
    \/ gen # "none"
    \/ train # None

\* C9: with a derived num_skills below 1, and after a rollout of the
\* evaluation raised, the run ends in an error of SkillSelection with no
\* environment, pool, value function or trainer built and no finetuning step.
EarlyAbort ==
    /\ (data # None /\ NumSkills(data) < 1) =>
          /\ pc \in {"num_skills", "enter", "eval", "argmax", "failed"}
          /\ pc = "argmax" => reward_list = <<>>
          /\ pc = "failed" => failed_at = "SkillSelection"
    /\ (pc = "failed" /\ failed_at \in {"Init", "SkillSelection"}) =>
          ~Constructed
    /\ pc \in {"load", "num_skills", "enter", "eval", "argmax", "return"} =>
          ~Constructed

AbortedOnSkillCount ==
    /\ pc = "failed"
    /\ failed_at = "SkillSelection"
    /\ num_skills < 0
    /\ n_rollouts = 0

Terminated == pc \in {"done", "failed"}

StageStep ==
    LET from == Rank(Stage(pc))
        to == Rank(Stage(pc'))
    IN  /\ ~Terminated
        /\ \/ to = from
           \/ to = from + 1 /\ to <= 5
           \/ pc' = "failed" /\ failed_at' = Stage(pc)

\* C10: the driver goes Init, SkillSelection, EnvironmentSetup,
\* ValueFunctionSetup, Training, Done, one state to the next, an error ending
\* the run; nothing happens after Done or after an error; the driver receives
\* the records one at a time, has received those of all n_epochs epochs at
\* Done, and every run ends.
DriverOrderAndTermination ==
    /\ Stage(pc) = "Init"
    /\ [][StageStep]_vars
    /\ [][Len(pulled') <= Len(pulled) + 1]_vars
    /\ [](pc = "done" => pulled = [k \in 1..variant.n_epochs |-> k - 1])
    /\ [](pc = "failed" => gen \in {"none", "raised"})
    /\ <>Terminated

AllEpochsPulled ==
    /\ pc = "done"
    /\ variant.n_epochs = 2
    /\ pulled = <<0, 1>>

FairSpec == Spec /\ WF_vars(Next)

====
